---- MODULE Spec2Model ----
(***************************************************************************)
(* The application object of flask/app.py: the constructor, the error      *)
(* handler registry, and the name property.                                *)
(*                                                                         *)
(* Python values are modelled as follows.                                  *)
(*   str    a sequence of one-character strings                            *)
(*   None   the one-element sequence <<"None">> (no str equals it, and it  *)
(*          can be compared with a str)                                    *)
(*   dict   a sequence of <<key, value>> pairs in insertion order, with no *)
(*          key twice; dicts compare equal as Python's == does, by their   *)
(*          items and not by their order (dict_eq)                         *)
(*   list   a sequence                                                     *)
(*   an instance   its __dict__, a function from attribute names to values;*)
(*          an attribute that was never assigned is not in its DOMAIN      *)
(*   classes and callables   their names                                   *)
(***************************************************************************)
EXTENDS Integers, Sequences, FiniteSets, TLC

VARIABLES
    self,        \* the instance's __dict__
    cls,         \* the names type(self) resolves (class attributes and methods)
    argv0,       \* sys.argv[0]
    pc,          \* "new" before __init__ ran, then "returned" or "raised"
    last,        \* the most recent call: [op, args, ret]
    registered   \* the handler passed by the most recent _register_error_handler
                 \* call for each exception class (a dict)

vars == <<self, cls, argv0, pc, last, registered>>

-----------------------------------------------------------------------------
(* Bounds and input sets *)

\* longest sys.argv[0] the name specification enumerates
MaxArgvLen == 6

\* the characters of the enumerated paths: the separator, and those of ".py"
Alphabet == {"/", ".", "p", "y"}

Strings(n) == UNION {[1..k -> Alphabet] : k \in 0..n}

None == <<"None">>

__main__ == <<"_", "_", "m", "a", "i", "n", "_", "_">>

\* import names passed to the constructor and values given to the name setter
ImportNames == {__main__, <<"p">>, <<"p", ".", "p", "y">>, <<"y", "/", "p">>}

\* sys.argv[0] in the specification of the whole object, and the values it is
\* assigned between calls
ArgvSamples == {<<"y", "/", "p", ".", "p", "y">>, <<"p", "y">>}

static == <<"s", "t", "a", "t", "i", "c">>

templates == <<"t", "e", "m", "p", "l", "a", "t", "e", "s">>

assets == <<"a", "s", "s", "e", "t", "s">>

\* exception classes and handlers given to _register_error_handler
ExceptionClasses == {"NotFound", "HTTPException", "KeyError"}

Handlers == {"handle_user_exception", "handle_http_exception", "on_error"}

-----------------------------------------------------------------------------
(* str *)

Range(s) == {s[i] : i \in 1..Len(s)}

\* str.rfind, counting positions from 1: 0 when ch does not occur
rfind(s, ch) ==
    LET hits == {i \in 1..Len(s) : s[i] = ch}
    IN  IF hits = {} THEN 0 ELSE CHOOSE i \in hits : \A j \in hits : j <= i

find(s, ch) ==
    LET hits == {i \in 1..Len(s) : s[i] = ch}
    IN  IF hits = {} THEN 0 ELSE CHOOSE i \in hits : \A j \in hits : i <= j

endswith(s, suffix) ==
    /\ Len(s) >= Len(suffix)
    /\ SubSeq(s, Len(s) - Len(suffix) + 1, Len(s)) = suffix

\* a variant that cuts at the first separator instead of the last
basename_first_sep(p) == SubSeq(p, find(p, "/") + 1, Len(p))

\* os.path.basename (posixpath): what follows the last "/"
basename(p) == SubSeq(p, rfind(p, "/") + 1, Len(p))

-----------------------------------------------------------------------------
(* dict *)

keys(d) == {d[i][1] : i \in 1..Len(d)}

index(d, k) == CHOOSE i \in 1..Len(d) : d[i][1] = k

getitem(d, k) == d[index(d, k)][2]

\* d[k] = v: a present key keeps its position, a new key goes last
setitem(d, k, v) ==
    IF k \in keys(d) THEN [d EXCEPT ![index(d, k)] = <<k, v>>]
    ELSE Append(d, <<k, v>>)

\* the dict after d.setdefault(k, default); the call returns getitem of it
setdefault(d, k, default) ==
    IF k \in keys(d) THEN d ELSE Append(d, <<k, default>>)

\* Python's == on dicts
dict_eq(d, e) ==
    /\ keys(d) = keys(e)
    /\ \A k \in keys(d) : getitem(d, k) = getitem(e, k)

-----------------------------------------------------------------------------
(* The class *)

\* what the body of class Flask defines
FlaskAttrs ==
    {"request_class", "response_class", "jinja_environment",
     "app_ctx_globals_class", "config_class", "test_client_class",
     "session_interface", "__init__", "_register_error_handler", "name",
     "__repr__"}

\* what __init__ reads from self and neither assigns nor finds in the class body
Undefined ==
    {"url_map_class", "default_config", "handle_user_exception",
     "handle_http_exception"}

Flask == [__name__ |-> <<"F", "l", "a", "s", "k">>, attrs |-> FlaskAttrs]

\* Flask, and the subclasses of it that define some of the names it leaves out
Classes ==
    {Flask} \cup
    {[__name__ |-> <<"A", "p", "p">>, attrs |-> FlaskAttrs \cup e] :
        e \in (SUBSET Undefined) \ {{}}}

App == [__name__ |-> <<"A", "p", "p">>, attrs |-> FlaskAttrs \cup Undefined]

\* attribute lookup on an instance: its __dict__, then its class
hasattr(obj, c, a) == a \in DOMAIN obj \/ a \in c.attrs

\* obj.a = v
setattr(obj, a, v) == (a :> v) @@ obj

AttributeError(a) == <<"AttributeError", a>>

-----------------------------------------------------------------------------
(* The methods *)

\* the name setter
name_fset(obj, value) == setattr(obj, "_name", value)

\* a getter that guesses from the run file whatever the import name is
name_fget_always_guess(obj, argv) ==
    LET base == basename(argv)
    IN  IF endswith(base, <<".", "p", "y">>)
        THEN SubSeq(base, 1, Len(base) - 3)
        ELSE base

\* the name getter
name_fget(obj, argv) ==
    IF obj._name = __main__
    THEN LET base == basename(argv)
         IN  IF endswith(base, <<".", "p", "y">>)
             THEN SubSeq(base, 1, Len(base) - 3)
             ELSE base
    ELSE obj._name

\* repr() of a str without quotes or backslashes
repr(s) == <<"'">> \o s \o <<"'">>

__repr__(obj, c, argv) ==
    <<"<">> \o c.__name__ \o <<" ">> \o repr(name_fget(obj, argv)) \o <<">">>

\* a registration that starts the class-to-handler dict afresh
register_replacing_all(obj, exception_class, handler) ==
    [obj EXCEPT !._error_handlers =
        setitem(obj._error_handlers, None, <<<<exception_class, handler>>>>)]

\* a registration that keeps the handler a class already has
register_first_wins(obj, exception_class, handler) ==
    LET eh == setdefault(obj._error_handlers, None, <<>>)
        inner == getitem(eh, None)
    IN  [obj EXCEPT !._error_handlers =
            setitem(eh, None, setdefault(inner, exception_class, handler))]

\* a registration that takes the first-request lock and marks the first request
register_under_lock(obj, exception_class, handler) ==
    LET eh == setdefault(obj._error_handlers, None, <<>>)
        inner == getitem(eh, None)
    IN  [obj EXCEPT !._error_handlers =
                        setitem(eh, None, setitem(inner, exception_class, handler)),
                    !._before_request_lock = "locked",
                    !._got_first_request = TRUE]

_register_error_handler(obj, exception_class, handler) ==
    LET eh == setdefault(obj._error_handlers, None, <<>>)
        inner == getitem(eh, None)
    IN  [obj EXCEPT !._error_handlers =
            setitem(eh, None, setitem(inner, exception_class, handler))]

\* registries that start with an application-level key
init_registries_with_app_key ==
    [_got_first_request |-> FALSE,
     _before_request_lock |-> "unlocked",
     _before_request_funcs |-> <<<<None, <<>>>>>>,
     _after_request_funcs |-> <<<<None, <<>>>>>>,
     _teardown_request_funcs |-> <<<<None, <<>>>>>>,
     _teardown_appcontext_funcs |-> <<<<None, <<>>>>>>,
     _url_default_functions |-> <<<<None, <<>>>>>>,
     _url_value_preprocessors |-> <<<<None, <<>>>>>>,
     _template_context_processors |-> <<<<None, <<>>>>>>,
     _error_handlers |-> <<>>,
     _before_first_request_funcs |-> <<>>]

\* the first assignments of __init__: the flag, the lock and the registries
init_registries ==
    [_got_first_request |-> FALSE,
     _before_request_lock |-> "unlocked",
     _before_request_funcs |-> <<>>,
     _after_request_funcs |-> <<>>,
     _teardown_request_funcs |-> <<>>,
     _teardown_appcontext_funcs |-> <<>>,
     _url_default_functions |-> <<>>,
     _url_value_preprocessors |-> <<>>,
     _template_context_processors |-> <<>>,
     _error_handlers |-> <<>>,
     _before_first_request_funcs |-> <<>>]

\* the arguments of a constructor call; those not listed take their defaults
Args ==
    [import_name : ImportNames,
     static_url_path : {None, <<"/", "s">>},
     static_folder : {static, assets},
     instance_path : {None, <<"/", "i">>}]

DefaultArgs(import_name) ==
    [import_name |-> import_name, static_url_path |-> None,
     static_folder |-> static, instance_path |-> None]

\* the constructor on an instance of class c: the instance it leaves behind and
\* the exception it raised (None when it returned)
__init__(c, a) ==
    LET s1 == name_fset(init_registries, a.import_name)
        s2 == [url_map |-> <<"url_map_class", "()">>,
               static_folder |-> a.static_folder,
               static_url_path |-> a.static_url_path,
               static_host |-> None,
               host_matching |-> FALSE,
               subdomain_matching |-> FALSE,
               template_folder |-> templates,
               instance_path |-> a.instance_path,
               instance_relative_config |-> FALSE,
               root_path |-> None] @@ s1
        s3 == [config |-> <<"config_class", None, "default_config", FALSE>>,
               view_functions |-> <<>>,
               blueprints |-> <<>>,
               extensions |-> <<>>,
               shell_context_processors |-> <<>>,
               _cli_commands |-> <<"cli.AppGroup", "()">>] @@ s2
        s4 == _register_error_handler(s3, "NotFound", "handle_user_exception")
        s5 == _register_error_handler(s4, "HTTPException", "handle_http_exception")
    IN  IF ~hasattr(s1, c, "url_map_class")
        THEN [obj |-> s1, exc |-> AttributeError("url_map_class")]
        ELSE IF ~hasattr(s2, c, "default_config")
        THEN [obj |-> s2, exc |-> AttributeError("default_config")]
        ELSE IF ~hasattr(s3, c, "handle_user_exception")
        THEN [obj |-> s3, exc |-> AttributeError("handle_user_exception")]
        ELSE IF ~hasattr(s4, c, "handle_http_exception")
        THEN [obj |-> s4, exc |-> AttributeError("handle_http_exception")]
        ELSE [obj |-> s5, exc |-> None]

-----------------------------------------------------------------------------
(* The operations *)

\* the _register_error_handler calls a constructor call got to make
calls_of_init(exc) ==
    IF exc = None
    THEN <<<<"NotFound", "handle_user_exception">>,
           <<"HTTPException", "handle_http_exception">>>>
    ELSE IF exc = AttributeError("handle_http_exception")
    THEN <<<<"NotFound", "handle_user_exception">>>>
    ELSE <<>>

Construct(a) ==
    /\ pc = "new"
    /\ LET r == __init__(cls, a)
       IN  /\ self' = r.obj
           /\ pc' = IF r.exc = None THEN "returned" ELSE "raised"
           /\ last' = [op |-> "__init__", args |-> a, ret |-> r.exc]
           /\ registered' = calls_of_init(r.exc)
    /\ UNCHANGED <<cls, argv0>>

Register(exception_class, handler) ==
    /\ pc = "returned"
    /\ self' = _register_error_handler(self, exception_class, handler)
    /\ last' = [op |-> "_register_error_handler",
                args |-> <<exception_class, handler>>, ret |-> None]
    /\ registered' = setitem(registered, exception_class, handler)
    /\ UNCHANGED <<cls, argv0, pc>>

ReadName ==
    /\ pc = "returned"
    /\ last' = [op |-> "name", args |-> <<>>, ret |-> name_fget(self, argv0)]
    /\ UNCHANGED <<self, cls, argv0, pc, registered>>

WriteName(value) ==
    /\ pc = "returned"
    /\ self' = name_fset(self, value)
    /\ last' = [op |-> "name.setter", args |-> value, ret |-> None]
    /\ UNCHANGED <<cls, argv0, pc, registered>>

Repr ==
    /\ pc = "returned"
    /\ last' = [op |-> "__repr__", args |-> <<>>,
                ret |-> __repr__(self, cls, argv0)]
    /\ UNCHANGED <<self, cls, argv0, pc, registered>>

\* sys.argv[0] is assigned between two calls
SetArgv(value) ==
    /\ argv0 # value
    /\ argv0' = value
    /\ last' = [op |-> "sys.argv", args |-> value, ret |-> None]
    /\ UNCHANGED <<self, cls, pc, registered>>

NoCall == [op |-> "", args |-> <<>>, ret |-> None]

\* before the constructor runs, for every class and the sampled run files
Init ==
    /\ self = <<>>
    /\ cls \in Classes
    /\ argv0 \in ArgvSamples
    /\ pc = "new"
    /\ last = NoCall
    /\ registered = <<>>

Next ==
    \/ \E a \in Args : Construct(a)
    \/ \E c \in ExceptionClasses, h \in Handlers : Register(c, h)
    \/ ReadName
    \/ \E v \in ImportNames : WriteName(v)
    \/ Repr
    \/ \E a \in ArgvSamples : SetArgv(a)

Spec == Init /\ [][Next]_vars

\* the name property alone, of an instance of a class whose constructor
\* returns, started with every run file up to MaxArgvLen characters
InitName ==
    /\ self = <<>>
    /\ cls = App
    /\ argv0 \in Strings(MaxArgvLen)
    /\ pc = "new"
    /\ last = NoCall
    /\ registered = <<>>

NextName ==
    \/ \E n \in ImportNames : Construct(DefaultArgs(n))
    \/ ReadName
    \/ \E v \in ImportNames : WriteName(v)
    \/ \E a \in ArgvSamples : SetArgv(a)

SpecName == InitName /\ [][NextName]_vars

-----------------------------------------------------------------------------
(* The name property *)

py == <<".", "p", "y">>

\* b is the last path component of p: the part of p after a "/" (or all of p)
\* that holds no "/" itself
IsLastComponent(b, p) ==
    \E i \in 0..Len(p) :
        /\ b = SubSeq(p, i + 1, Len(p))
        /\ i = 0 \/ p[i] = "/"
        /\ "/" \notin Range(b)

\* r is b without one trailing ".py", or b when b does not end so
IsStripped(r, b) ==
    IF \E stem \in {SubSeq(b, 1, k) : k \in 0..Len(b)} : b = stem \o py
    THEN r \o py = b
    ELSE r = b

\* C1: a read of name while the stored import name is "__main__" returns the
\* last path component of sys.argv[0] as it is at the read, without one
\* trailing ".py" when it ends in ".py" and unchanged otherwise.
C1_NameGuessedFromRunFile ==
    (last.op = "name" /\ self._name = __main__) =>
        \E b \in {SubSeq(argv0, k, Len(argv0)) : k \in 1..(Len(argv0) + 1)} :
            /\ IsLastComponent(b, argv0)
            /\ IsStripped(last.ret, b)

\* a read under "__main__" of a run file in a directory, ending in ".py"
C1_Witness ==
    /\ last.op = "name"
    /\ self._name = __main__
    /\ argv0 = <<"y", "/", "p", ".", "p", "y">>
    /\ last.ret = <<"p">>

\* C2: while the stored import name is not "__main__", a read of name returns
\* it unchanged whatever sys.argv[0] is; the constructor stores the import name
\* it is given and the setter the value it is given, so the read that follows
\* the setter called with v other than "__main__" returns v.
C2_ImportNameReturnedUnchanged ==
    /\ [](last.op = "name" /\ self._name # __main__ => last.ret = self._name)
    /\ [](last.op = "__init__" /\ pc = "returned" =>
            self._name = last.args.import_name)
    /\ [](last.op = "name.setter" => self._name = last.args)
    /\ [][(last.op = "name.setter" /\ last.args # __main__ /\ last'.op = "name")
            => last'.ret = last.args]_vars

\* a read of an import name that ends in ".py", run from a file in a directory
C2_Witness ==
    /\ last.op = "name"
    /\ self._name = <<"p", ".", "p", "y">>
    /\ last.ret = <<"p", ".", "p", "y">>
    /\ "/" \in Range(argv0)

-----------------------------------------------------------------------------
(* The registries *)

\* the registries that map a key to a list of callables
CallableRegistries ==
    {"_before_request_funcs", "_after_request_funcs", "_teardown_request_funcs",
     "_teardown_appcontext_funcs", "_url_default_functions",
     "_url_value_preprocessors", "_template_context_processors"}

\* the other collections the constructor creates empty
OtherRegistries ==
    {"_before_first_request_funcs", "view_functions", "blueprints",
     "extensions", "shell_context_processors"}

Returned == last.op = "__init__" /\ pc = "returned"

\* the class-to-handler dict under the application-level key
app_handlers(obj) == getitem(obj._error_handlers, None)

\* C3: in the state the constructor returns in, every registry that maps a key
\* to a list of callables has no keys, and the before-first-request list,
\* view_functions, blueprints, extensions and shell_context_processors are empty.
C3_RegistriesEmptyAtConstruction ==
    Returned =>
        /\ \A r \in CallableRegistries : keys(self[r]) = {}
        /\ \A r \in OtherRegistries : Len(self[r]) = 0

C3_Witness ==
    /\ Returned
    /\ (CallableRegistries \cup OtherRegistries) \subseteq DOMAIN self

\* C5: in the state the constructor returns in, the error-handler registry has
\* the key None alone, and under it NotFound maps to handle_user_exception,
\* HTTPException to handle_http_exception, and no other class is registered.
C5_DefaultErrorHandlers ==
    Returned =>
        /\ keys(self._error_handlers) = {None}
        /\ Len(self._error_handlers) = 1
        /\ keys(app_handlers(self)) = {"NotFound", "HTTPException"}
        /\ Len(app_handlers(self)) = 2
        /\ getitem(app_handlers(self), "NotFound") = "handle_user_exception"
        /\ getitem(app_handlers(self), "HTTPException") = "handle_http_exception"

C5_Witness ==
    /\ Returned
    /\ None \in keys(self._error_handlers)
    /\ "NotFound" \in keys(app_handlers(self))

\* C6: the constructor called on Flask itself with only an import name returns:
\* every attribute it reads resolves.
C6_ConstructorCompletes ==
    (last.op = "__init__" /\ cls = Flask
        /\ last.args = DefaultArgs(last.args.import_name)) =>
            (pc = "returned" /\ last.ret = None)

\* C7: after a constructor call without static_url_path, static_url_path is the
\* name of the static_folder folder; after one without instance_path,
\* instance_path is a folder named "instance".
C7_PathDefaults ==
    Returned =>
        /\ last.args.static_url_path = None =>
              /\ self.static_url_path # None
              /\ basename(self.static_url_path) = basename(self.static_folder)
        /\ last.args.instance_path = None =>
              /\ self.instance_path # None
              /\ basename(self.instance_path)
                    = <<"i", "n", "s", "t", "a", "n", "c", "e">>

\* C8: once the constructor has run, the first-request flag is False and the
\* first-request lock is not held, in every state the operations reach.
C8_FirstRequestNotExercised ==
    pc # "new" =>
        /\ self._got_first_request = FALSE
        /\ self._before_request_lock = "unlocked"

C8_Witness ==
    /\ pc = "returned"
    /\ last.op = "_register_error_handler"
    /\ self._got_first_request = FALSE
    /\ self._before_request_lock = "unlocked"

\* the registries of obj and of its successor agree on every key, and on the
\* classes registered under each key of the error-handler registry
KeysKept(obj, new) ==
    /\ \A r \in CallableRegistries \cup {"_error_handlers"} :
          keys(obj[r]) \subseteq keys(new[r])
    /\ \A r \in CallableRegistries :
          \A k \in keys(obj[r]) :
              /\ Len(getitem(obj[r], k)) <= Len(getitem(new[r], k))
              /\ SubSeq(getitem(new[r], k), 1, Len(getitem(obj[r], k)))
                    = getitem(obj[r], k)
    /\ \A r \in OtherRegistries :
          /\ Len(obj[r]) <= Len(new[r])
          /\ SubSeq(new[r], 1, Len(obj[r])) = obj[r]
    /\ \A k \in keys(obj._error_handlers) :
          keys(getitem(obj._error_handlers, k))
              \subseteq keys(getitem(new._error_handlers, k))

\* every (class, handler) entry of obj is an entry of its successor
EntriesKept(obj, new) ==
    \A k \in keys(obj._error_handlers) :
        \A c \in keys(getitem(obj._error_handlers, k)) :
            getitem(getitem(new._error_handlers, k), c)
                = getitem(getitem(obj._error_handlers, k), c)

\* a registry of obj differs in its successor
RegistryChanged(obj, new) ==
    \E r \in CallableRegistries \cup OtherRegistries \cup {"_error_handlers"} :
        new[r] # obj[r]

\* C4 as stated: on a constructed object no key and no entry of a registry is
\* ever lost, and a registry changes only by a registration call.
C4_NoEntryEverLost ==
    [][pc = "returned" =>
        /\ KeysKept(self, self')
        /\ EntriesKept(self, self')
        /\ RegistryChanged(self, self') =>
              last'.op = "_register_error_handler"]_vars

\* C4, amended: on a constructed object no key of a registry (a blueprint key,
\* an exception class) is ever lost, and a registry changes only by a
\* registration call; the handler of a class changes only by a
\* _register_error_handler call for that class, which replaces it.
C4_RegistriesOnlyGrow ==
    [][pc = "returned" =>
        /\ KeysKept(self, self')
        /\ RegistryChanged(self, self') =>
              last'.op = "_register_error_handler"
        /\ \A c \in keys(app_handlers(self)) :
              getitem(app_handlers(self'), c) # getitem(app_handlers(self), c) =>
                  /\ last'.op = "_register_error_handler"
                  /\ last'.args = <<c, getitem(app_handlers(self'), c)>>]_vars

\* a third class was registered and the handler of a default one replaced
C4_Witness ==
    /\ pc = "returned"
    /\ last.op = "_register_error_handler"
    /\ keys(app_handlers(self)) = {"NotFound", "HTTPException", "KeyError"}
    /\ getitem(app_handlers(self), "NotFound") = "on_error"

\* the error-handler registries of two instances are equal dicts
same_handlers(x, y) ==
    /\ keys(x._error_handlers) = keys(y._error_handlers)
    /\ \A k \in keys(x._error_handlers) :
          dict_eq(getitem(x._error_handlers, k), getitem(y._error_handlers, k))

\* C9: under the key None each exception class occurs once, with the handler of
\* the most recent _register_error_handler call for it; a registration made a
\* second time changes nothing, and registrations for two different classes
\* give equal registries in either order.
C9_LastRegistrationWins ==
    pc = "returned" =>
        /\ Cardinality(keys(app_handlers(self))) = Len(app_handlers(self))
        /\ dict_eq(app_handlers(self), registered)
        /\ \A c \in ExceptionClasses, h \in Handlers :
              LET once == _register_error_handler(self, c, h)
              IN  /\ getitem(app_handlers(once), c) = h
                  /\ _register_error_handler(once, c, h) = once
        /\ \A c1, c2 \in ExceptionClasses, h1, h2 \in Handlers :
              c1 # c2 =>
                  same_handlers(
                      _register_error_handler(
                          _register_error_handler(self, c1, h1), c2, h2),
                      _register_error_handler(
                          _register_error_handler(self, c2, h2), c1, h1))

\* a default handler was replaced by a later registration
C9_Witness ==
    /\ pc = "returned"
    /\ last.op = "_register_error_handler"
    /\ last.args = <<"HTTPException", "on_error">>
    /\ getitem(registered, "HTTPException") = "on_error"
    /\ getitem(app_handlers(self), "NotFound") = "handle_user_exception"

====
